---- MODULE Spec2Model ----
(***************************************************************************)
(* Model of the x402 payment-request orchestrator                          *)
(* (src/src/application/usecases/ProcessX402Request.ts).                   *)
(*                                                                         *)
(* Every invocation of ProcessX402Request.execute is a process with its    *)
(* own locals.  One action models the code that runs between two           *)
(* suspension points (await) of execute: the continuation that consumes    *)
(* the awaited value, every synchronous port call after it, and the next   *)
(* asynchronous call it issues (or the return / throw that ends execute).  *)
(* The repositories and the payment gateway are modelled after the         *)
(* in-memory repositories and MockPaymentGateway of                        *)
(* src/tests/application/ProcessX402Request.test.ts; what verifyPayment    *)
(* and settlePayment answer is chosen by the environment.                  *)
(*                                                                         *)
(* The server's start-up (main of src/src/index.ts) comes first: the       *)
(* gateway is initialized, the orchestrator is constructed and the server  *)
(* listens, or the process exits; requests reach execute through the       *)
(* listening server.                                                       *)
(***************************************************************************)
EXTENDS Integers, Sequences, FiniteSets, TLC

\* Number of invocations of execute that may be in flight together.
NumInvocations == 2

Invocations == 1..NumInvocations

(***************************************************************************)
(* Optional values (null / undefined in the source) are sequences of       *)
(* length 0 or 1.                                                           *)
(***************************************************************************)
None == << >>
Some(x) == << x >>
IsSome(o) == Len(o) > 0
Get(o) == o[1]

(***************************************************************************)
(* The Resource Catalog at start-up.                                       *)
(***************************************************************************)
InitVendors ==
  { [id |-> "vendor-1", name |-> "Test Vendor",
     evmAddress |-> "0x1111111111111111111111111111111111111111"],
    [id |-> "vendor-2", name |-> "Other Vendor",
     evmAddress |-> "0x2222222222222222222222222222222222222222"] }

InitProducts ==
  { [id |-> "product-1", vendorId |-> "vendor-1", path |-> "weather",
     price |-> "$0.001", network |-> "eip155:84532",
     description |-> "Weather API", mimeType |-> "application/json",
     data |-> "{weather:sunny,temp:25}", status |-> "active"],
    [id |-> "product-2", vendorId |-> "vendor-2", path |-> "image",
     price |-> "$0.01", network |-> "eip155:1",
     description |-> "Image data", mimeType |-> "image/png",
     data |-> "base64encodedimage", status |-> "active"] }

(***************************************************************************)
(* Inputs of execute (ProcessX402Input).                                   *)
(***************************************************************************)
\* paymentHeader?: string  -- the field left out.
Undefined == "<undefined>"

\* vendor-1 sells "weather" and not "image", which vendor-2 sells.
VendorIds == {"vendor-1", "non-existent"}
Paths == {"weather", "image"}
ResourceUrls == {"http://localhost:3000/r"}

\* What a client claims to accept inside its proof: untrusted.
ClaimedExact ==
  [scheme |-> "exact", network |-> "eip155:84532",
   asset |-> "0xattackerAsset", amount |-> "1",
   payTo |-> "0xattacker", maxTimeoutSeconds |-> 1, extra |-> << >>]

ClaimedUpto ==
  [scheme |-> "upto", network |-> "eip155:84532",
   asset |-> "0xattackerAsset", amount |-> "1",
   payTo |-> "0xattacker", maxTimeoutSeconds |-> 1, extra |-> << >>]

ClaimedMainnet ==
  [scheme |-> "exact", network |-> "eip155:1",
   asset |-> "0xattackerAsset", amount |-> "1",
   payTo |-> "0xattacker", maxTimeoutSeconds |-> 1, extra |-> << >>]

PayloadOf(accepted) ==
  [x402Version |-> 2,
   resource |-> [url |-> "http://client/claimed",
                 description |-> "claimed", mimeType |-> "text/claimed"],
   accepted |-> accepted,
   payload |-> [signature |-> "0xsignature"]]

\* Encoded headers that decode to a payload, and the payload of each.
WellFormedHeaders == {"b64(exact)", "b64(upto)", "b64(mainnet)"}
Decoded(header) ==
  CASE header = "b64(exact)" -> PayloadOf(ClaimedExact)
    [] header = "b64(upto)" -> PayloadOf(ClaimedUpto)
    [] header = "b64(mainnet)" -> PayloadOf(ClaimedMainnet)

PaymentHeaders == {Undefined, "", "not-base64-json"} \cup WellFormedHeaders

Inputs ==
  [vendorId : VendorIds, path : Paths, resourceUrl : ResourceUrls,
   paymentHeader : PaymentHeaders]


(***************************************************************************)
(* Resource Catalog: the repositories' lookups.                            *)
(***************************************************************************)
\* IVendorRepository.findById: the vendor with this id, or null.
findById(vs, id) ==
  IF \E v \in vs : v.id = id
    THEN Some(CHOOSE v \in vs : v.id = id)
    ELSE None

\* IProductRepository.findByVendorIdAndPath: the product of this vendor at
\* this path, or null.
findByVendorIdAndPath(ps, vendorId, path) ==
  IF \E p \in ps : p.vendorId = vendorId /\ p.path = path
    THEN Some(CHOOSE p \in ps : p.vendorId = vendorId /\ p.path = path)
    ELSE None

(***************************************************************************)
(* Payment Backend Port (IPaymentGateway), after MockPaymentGateway.       *)
(***************************************************************************)
buildPaymentRequirements(config) ==
  << [scheme |-> config.scheme,
      network |-> config.network,
      asset |-> "0x036CbD53842c5426634e7929541eC2318f3dCF7e",
      amount |-> "1000",
      payTo |-> config.payTo,
      maxTimeoutSeconds |-> config.maxTimeoutSeconds,
      extra |-> << >>] >>

createPaymentRequiredResponse(requirements, resourceInfo) ==
  [x402Version |-> 2, accepts |-> requirements, resource |-> resourceInfo]

\* Array.prototype.find: the first entry with the proof's scheme and network,
\* or undefined.
Matches(r, paymentPayload) ==
  /\ r.scheme = paymentPayload.accepted.scheme
  /\ r.network = paymentPayload.accepted.network

findMatchingRequirements(availableRequirements, paymentPayload) ==
  LET hits == { k \in 1..Len(availableRequirements) :
                  Matches(availableRequirements[k], paymentPayload) }
  IN  IF hits = {} THEN None
      ELSE Some(availableRequirements[CHOOSE k \in hits : \A m \in hits : k <= m])

\* JSON.parse(base64 decode(header)): the payload, or None when it throws.
parsePaymentHeader(header) ==
  IF header \in WellFormedHeaders THEN Some(Decoded(header)) ELSE None

\* What the facilitator may answer to verifyPayment and settlePayment.
VerifyResponses ==
  { [isValid |-> TRUE, invalidReason |-> None, payer |-> Some("0x1234")],
    [isValid |-> FALSE, invalidReason |-> Some("Invalid signature"), payer |-> None],
    [isValid |-> FALSE, invalidReason |-> Some(""), payer |-> None],
    [isValid |-> FALSE, invalidReason |-> None, payer |-> None] }

SettleResponses ==
  { [success |-> TRUE, errorReason |-> None,
     transaction |-> "0xabc123", network |-> "eip155:84532", payer |-> Some("0x1234")],
    [success |-> FALSE, errorReason |-> Some("Insufficient funds"),
     transaction |-> "", network |-> "eip155:84532", payer |-> None],
    [success |-> FALSE, errorReason |-> Some(""),
     transaction |-> "", network |-> "eip155:84532", payer |-> None],
    [success |-> FALSE, errorReason |-> None,
     transaction |-> "", network |-> "eip155:84532", payer |-> None] }


(***************************************************************************)
(* ProcessX402Request.execute: the values it builds.                       *)
(***************************************************************************)
\* Faulty variant of the resource descriptor below: a proof that decodes
\* supplies the descriptor it claims.
ResourceInfoFromProof(in, product) ==
  IF in.paymentHeader \in WellFormedHeaders
    THEN Decoded(in.paymentHeader).resource
    ELSE [url |-> in.resourceUrl,
          description |-> product.description,
          mimeType |-> product.mimeType]

\* const resourceInfo = { url, description, mimeType }
ResourceInfo(in, product) ==
  [url |-> in.resourceUrl,
   description |-> product.description,
   mimeType |-> product.mimeType]

\* Faulty variant of the requirement-build request below: the payee is the
\* vendor's id instead of its payout address.
ResourceConfigPayToId(vendor, product) ==
  [scheme |-> "exact",
   network |-> product.network,
   price |-> product.price,
   payTo |-> vendor.id,
   maxTimeoutSeconds |-> 60]

ResourceConfig(vendor, product) ==
  [scheme |-> "exact",
   network |-> product.network,
   price |-> product.price,
   payTo |-> vendor.evmAddress,
   maxTimeoutSeconds |-> 60]

\* Faulty variant of the guard below: only a header left out counts as no
\* proof (=== undefined).
NoPaymentHeaderUndefinedOnly(in) == in.paymentHeader = Undefined

\* !input.paymentHeader: the field is undefined or the empty string.
NoPaymentHeader(in) == in.paymentHeader = Undefined \/ in.paymentHeader = ""

\* Faulty variants of the two guards below: verification is never taken as
\* rejected / only when a reason comes with it; settlement is never taken as
\* failed.
VerifyRejectedNever(verifyResult) == FALSE
VerifyRejectedIfReason(verifyResult) == IsSome(verifyResult.invalidReason)
SettleRejectedNever(settleResult) == FALSE

\* !verifyResult.isValid and !settleResult.success
VerifyRejected(verifyResult) == ~verifyResult.isValid
SettleRejected(settleResult) == ~settleResult.success

\* Faulty variant of the operator below:  x || fallback, which also replaces
\* an empty string.
OrElseFalsy(o, fallback) == IF IsSome(o) /\ Get(o) # "" THEN Get(o) ELSE fallback

\* x ?? fallback
OrElse(o, fallback) == IF IsSome(o) THEN Get(o) ELSE fallback

\* Faulty variant of the outcome below: the reason of the other lookup.
VendorNotFoundAsProduct == [type |-> "not_found", reason |-> "Product not found"]

VendorNotFound == [type |-> "not_found", reason |-> "Vendor not found"]
ProductNotFound == [type |-> "not_found", reason |-> "Product not found"]

PaymentRequiredResult(requirements, resourceInfo) ==
  [type |-> "payment_required",
   paymentRequired |-> createPaymentRequiredResponse(requirements, resourceInfo)]

\* Faulty variant of the challenge below: it offers what the client claimed.
NoMatchEchoesClaim(requirements, resourceInfo, paymentPayload) ==
  PaymentRequiredResult(<< paymentPayload.accepted >>, resourceInfo)

\* The challenge returned when the proof matches no requirement; the decoded
\* proof is in scope there.
NoMatchResult(requirements, resourceInfo, paymentPayload) ==
  PaymentRequiredResult(requirements, resourceInfo)

\* Faulty variants of the outcomes below: the port's reason is dropped, the
\* product rides along with a failed settlement, the content is left out of
\* the product released.
VerificationFailedGeneric(verifyResult) ==
  [type |-> "verification_failed", reason |-> "Unknown verification error"]
SettlementFailedLeaks(settleResult, product) ==
  [type |-> "settlement_failed",
   reason |-> IF IsSome(settleResult.errorReason) THEN Get(settleResult.errorReason)
              ELSE "Unknown settlement error",
   product |-> product]
SuccessWithoutContent(settleResult, product) ==
  [type |-> "success", settleResponse |-> settleResult,
   product |-> [product EXCEPT !.data = ""]]

\* Faulty variant of the outcome below: no placeholder, so the reason is
\* missing when the port gives none.
VerificationFailedNoDefault(verifyResult) ==
  IF IsSome(verifyResult.invalidReason)
    THEN [type |-> "verification_failed", reason |-> Get(verifyResult.invalidReason)]
    ELSE [type |-> "verification_failed"]

VerificationFailed(verifyResult) ==
  [type |-> "verification_failed",
   reason |-> OrElse(verifyResult.invalidReason, "Unknown verification error")]

SettlementFailed(settleResult, product) ==
  [type |-> "settlement_failed",
   reason |-> OrElse(settleResult.errorReason, "Unknown settlement error")]

Success(settleResult, product) ==
  [type |-> "success", settleResponse |-> settleResult, product |-> product]

\* Faulty variants of the arguments below: the requirement is the one the
\* client claimed inside its proof.
VerifyArgsClaimed(paymentPayload, matchingRequirements) ==
  << paymentPayload, paymentPayload.accepted >>
SettleArgsClaimed(paymentPayload, matchingRequirements) ==
  << paymentPayload, paymentPayload.accepted >>

\* The arguments of verifyPayment and of settlePayment.
VerifyArgs(paymentPayload, matchingRequirements) ==
  << paymentPayload, matchingRequirements >>
SettleArgs(paymentPayload, matchingRequirements) ==
  << paymentPayload, matchingRequirements >>

\* One entry of an invocation's record of collaborator calls.
Call(op, args) == [op |-> op, args |-> args]

(***************************************************************************)
(* State.                                                                  *)
(***************************************************************************)
VARIABLES
  vendors,              \* Resource Catalog: the vendors
  products,             \* Resource Catalog: the products
  pc,                   \* where each invocation of execute stands
  input,                \* its argument
  vendor,               \* its locals, None until assigned
  product,
  requirements,
  paymentPayload,
  matchingRequirements,
  verifyResult,
  settleResult,
  result,               \* the value execute resolved with, None before
  thrown,               \* the error execute rejected with, None if none
  calls,                \* the collaborator calls it made, in order
  mainPc,               \* where main of index.ts is
  gateway,              \* the payment gateway: new, initializing, initialized, failed
  mainLog,              \* what main has done, in order
  exitCode              \* the code the process exited with, None while it runs

vars == << vendors, products, pc, input, vendor, product, requirements,
           paymentPayload, matchingRequirements, verifyResult, settleResult,
           result, thrown, calls, mainPc, gateway, mainLog, exitCode >>

catalog == << vendors, products >>
server == << mainPc, gateway, mainLog, exitCode >>

NoInput == [vendorId |-> "", path |-> "", resourceUrl |-> "", paymentHeader |-> Undefined]

Init ==
  /\ vendors = InitVendors
  /\ products = InitProducts
  /\ pc = [i \in Invocations |-> "idle"]
  /\ input = [i \in Invocations |-> NoInput]
  /\ vendor = [i \in Invocations |-> None]
  /\ product = [i \in Invocations |-> None]
  /\ requirements = [i \in Invocations |-> << >>]
  /\ paymentPayload = [i \in Invocations |-> None]
  /\ matchingRequirements = [i \in Invocations |-> None]
  /\ verifyResult = [i \in Invocations |-> None]
  /\ settleResult = [i \in Invocations |-> None]
  /\ result = [i \in Invocations |-> None]
  /\ thrown = [i \in Invocations |-> None]
  /\ calls = [i \in Invocations |-> << >>]
  /\ mainPc = "start"
  /\ gateway = "new"
  /\ mainLog = << >>
  /\ exitCode = None

\* return x  and  throw e  out of execute
Return(i, x) ==
  /\ pc' = [pc EXCEPT ![i] = "done"]
  /\ result' = [result EXCEPT ![i] = Some(x)]
  /\ thrown' = thrown

Throw(i, e) ==
  /\ pc' = [pc EXCEPT ![i] = "threw"]
  /\ thrown' = [thrown EXCEPT ![i] = Some(e)]
  /\ result' = result

\* suspend at the next await
Await(i, at) ==
  /\ pc' = [pc EXCEPT ![i] = at]
  /\ result' = result
  /\ thrown' = thrown

Record(i, cs) == calls' = [calls EXCEPT ![i] = calls[i] \o cs]


(***************************************************************************)
(* ProcessX402Request.execute, one action per stretch between awaits.      *)
(***************************************************************************)
\* Faulty variant of the definition below: the arguments are kept in a field
\* of the orchestrator, which all invocations share, so that an invocation
\* sees those of another one suspended at the same await.
PendingOnInstance(i) ==
  IF \E j \in Invocations \ {i} : pc[j] = pc[i]
    THEN LET j == CHOOSE j \in Invocations \ {i} : pc[j] = pc[i]
         IN  calls[j][Len(calls[j])].args
    ELSE calls[i][Len(calls[i])].args

\* The arguments of the call an invocation is suspended on.
Pending(i) == calls[i][Len(calls[i])].args

\* execute(input) is called: it runs up to the first await.
Start(i, in) ==
  /\ pc[i] = "idle"
  /\ input' = [input EXCEPT ![i] = in]
  /\ Record(i, << Call("findById", << in.vendorId >>) >>)
  /\ Await(i, "awaitVendor")
  /\ UNCHANGED << server, catalog, vendor, product, requirements, paymentPayload,
                  matchingRequirements, verifyResult, settleResult >>

\* Variant of the continuation below that checks the vendor late: the
\* product lookup is started whether or not the vendor was found.
VendorReturnedLate(i) ==
  /\ pc[i] = "awaitVendor"
  /\ vendor' = [vendor EXCEPT ![i] = findById(vendors, Pending(i)[1])]
  /\ Record(i, << Call("findByVendorIdAndPath",
                       << input[i].vendorId, input[i].path >>) >>)
  /\ Await(i, "awaitProduct")
  /\ UNCHANGED << server, catalog, input, product, requirements, paymentPayload,
                  matchingRequirements, verifyResult, settleResult >>

\* vendorRepository.findById resolves.
VendorReturned(i) ==
  /\ pc[i] = "awaitVendor"
  /\ LET v == findById(vendors, Pending(i)[1])
     IN  /\ vendor' = [vendor EXCEPT ![i] = v]
         /\ IF ~IsSome(v)
              THEN /\ Return(i, VendorNotFound)
                   /\ calls' = calls
              ELSE /\ Record(i, << Call("findByVendorIdAndPath",
                                        << input[i].vendorId, input[i].path >>) >>)
                   /\ Await(i, "awaitProduct")
  /\ UNCHANGED << server, catalog, input, product, requirements, paymentPayload,
                  matchingRequirements, verifyResult, settleResult >>

\* productRepository.findByVendorIdAndPath resolves.
ProductReturned(i) ==
  /\ pc[i] = "awaitProduct"
  /\ LET p == findByVendorIdAndPath(products, Pending(i)[1], Pending(i)[2])
     IN  /\ product' = [product EXCEPT ![i] = p]
         /\ IF ~IsSome(p)
              THEN /\ Return(i, ProductNotFound)
                   /\ calls' = calls
              ELSE /\ Record(i, << Call("buildPaymentRequirements",
                                        << ResourceConfig(Get(vendor[i]), Get(p)) >>) >>)
                   /\ Await(i, "awaitBuild")
  /\ UNCHANGED << server, catalog, input, vendor, requirements, paymentPayload,
                  matchingRequirements, verifyResult, settleResult >>

\* Faulty variant (for the code as it is) of the handling below: the decode
\* error is caught and folded into an outcome.
OnDecodeErrorCaught(i) ==
  Return(i, [type |-> "verification_failed", reason |-> "decode error"])

\* parsePaymentHeader throws: nothing in execute catches it.
OnDecodeError(i) == Throw(i, "decode error")

\* paymentGateway.buildPaymentRequirements resolves: the header is looked at,
\* decoded and matched, and verification is started.
BuildReturned(i) ==
  /\ pc[i] = "awaitBuild"
  /\ LET in == input[i]
         reqs == buildPaymentRequirements(Pending(i)[1])
         info == ResourceInfo(in, Get(product[i]))
         created == Call("createPaymentRequiredResponse", << reqs, info >>)
         parse == Call("parsePaymentHeader", << in.paymentHeader >>)
         parsed == parsePaymentHeader(in.paymentHeader)
     IN  /\ requirements' = [requirements EXCEPT ![i] = reqs]
         /\ IF NoPaymentHeader(in)
              THEN /\ Record(i, << created >>)
                   /\ Return(i, PaymentRequiredResult(reqs, info))
                   /\ UNCHANGED << paymentPayload, matchingRequirements >>
              ELSE IF ~IsSome(parsed)
                THEN /\ Record(i, << parse >>)
                     /\ OnDecodeError(i)
                     /\ UNCHANGED << paymentPayload, matchingRequirements >>
                ELSE LET m == findMatchingRequirements(reqs, Get(parsed))
                         find == Call("findMatchingRequirements", << reqs, Get(parsed) >>)
                     IN  /\ paymentPayload' = [paymentPayload EXCEPT ![i] = parsed]
                         /\ matchingRequirements' = [matchingRequirements EXCEPT ![i] = m]
                         /\ IF ~IsSome(m)
                              THEN /\ Record(i, << parse, find, created >>)
                                   /\ Return(i, NoMatchResult(reqs, info, Get(parsed)))
                              ELSE /\ Record(i, << parse, find,
                                                   Call("verifyPayment", VerifyArgs(Get(parsed), Get(m))) >>)
                                   /\ Await(i, "awaitVerify")
  /\ UNCHANGED << server, catalog, input, vendor, product, verifyResult, settleResult >>

\* Variant of the continuation below that deduplicates proofs: settlement is
\* not started for a proof another invocation has already sent to
\* settlement.
VerifyReturnedDedup(i, answer) ==
  /\ pc[i] = "awaitVerify"
  /\ verifyResult' = [verifyResult EXCEPT ![i] = Some(answer)]
  /\ IF VerifyRejected(answer)
       THEN /\ Return(i, VerificationFailed(answer))
            /\ calls' = calls
       ELSE IF \E j \in Invocations \ {i} : \E k \in 1..Len(calls[j]) :
                  /\ calls[j][k].op = "settlePayment"
                  /\ calls[j][k].args[1] = Get(paymentPayload[i])
         THEN /\ Return(i, [type |-> "settlement_failed", reason |-> "Duplicate proof"])
              /\ calls' = calls
         ELSE /\ Record(i, << Call("settlePayment",
                                   SettleArgs(Get(paymentPayload[i]),
                                              Get(matchingRequirements[i]))) >>)
              /\ Await(i, "awaitSettle")
  /\ UNCHANGED << server, catalog, input, vendor, product, requirements, paymentPayload,
                  matchingRequirements, settleResult >>

\* paymentGateway.verifyPayment resolves with the facilitator's answer.
VerifyReturned(i, answer) ==
  /\ pc[i] = "awaitVerify"
  /\ verifyResult' = [verifyResult EXCEPT ![i] = Some(answer)]
  /\ IF VerifyRejected(answer)
       THEN /\ Return(i, VerificationFailed(answer))
            /\ calls' = calls
       ELSE /\ Record(i, << Call("settlePayment",
                                 SettleArgs(Get(paymentPayload[i]),
                                            Get(matchingRequirements[i]))) >>)
            /\ Await(i, "awaitSettle")
  /\ UNCHANGED << server, catalog, input, vendor, product, requirements, paymentPayload,
                  matchingRequirements, settleResult >>

\* Variant of the continuation below that retries: a settlement the
\* facilitator has refused is submitted once more before it is given up.
SettleReturnedRetry(i, answer) ==
  /\ pc[i] = "awaitSettle"
  /\ settleResult' = [settleResult EXCEPT ![i] = Some(answer)]
  /\ IF SettleRejected(answer)
       THEN IF Cardinality({ k \in 1..Len(calls[i]) : calls[i][k].op = "settlePayment" }) < 2
              THEN /\ Record(i, << Call("settlePayment",
                                        SettleArgs(Get(paymentPayload[i]),
                                                   Get(matchingRequirements[i]))) >>)
                   /\ Await(i, "awaitSettle")
              ELSE /\ Return(i, SettlementFailed(answer, Get(product[i])))
                   /\ calls' = calls
       ELSE /\ Return(i, Success(answer, Get(product[i])))
            /\ calls' = calls
  /\ UNCHANGED << server, catalog, input, vendor, product, requirements, paymentPayload,
                  matchingRequirements, verifyResult >>

\* paymentGateway.settlePayment resolves with the facilitator's answer.
SettleReturned(i, answer) ==
  /\ pc[i] = "awaitSettle"
  /\ settleResult' = [settleResult EXCEPT ![i] = Some(answer)]
  /\ IF SettleRejected(answer)
       THEN Return(i, SettlementFailed(answer, Get(product[i])))
       ELSE Return(i, Success(answer, Get(product[i])))
  /\ calls' = calls
  /\ UNCHANGED << server, catalog, input, vendor, product, requirements, paymentPayload,
                  matchingRequirements, verifyResult >>

\* Faulty variant (for the code as it is) of the handling below: the fault
\* is caught and folded into an outcome.
OnPortFaultCaught(i) ==
  Return(i, [type |-> "settlement_failed", reason |-> "backend fault"])

\* An awaited port call rejects: nothing in execute catches the rejection.
OnPortFault(i) == Throw(i, "backend fault")

\* An awaited port call rejects (a fault of the backend): the rejection
\* leaves execute, which has no try/catch.
PortFault(i) ==
  /\ pc[i] \in {"awaitBuild", "awaitVerify", "awaitSettle"}
  /\ OnPortFault(i)
  /\ UNCHANGED << server, catalog, input, vendor, product, requirements, paymentPayload,
                  matchingRequirements, verifyResult, settleResult, calls >>

(***************************************************************************)
(* main of index.ts, one action per stretch between awaits.                *)
(***************************************************************************)
execution ==
  << pc, input, vendor, product, requirements, paymentPayload,
     matchingRequirements, verifyResult, settleResult, result, thrown, calls >>

\* Faulty variant of the start-up below: initialize is called and not
\* awaited, so that main goes on to construct the orchestrator and to
\* listen at once.
MainStartNoAwait ==
  /\ mainPc = "start"
  /\ gateway' = "initializing"
  /\ mainLog' = mainLog \o << "initialize", "construct", "listen" >>
  /\ mainPc' = "returned"
  /\ UNCHANGED << catalog, execution, exitCode >>

\* main runs up to  await paymentGateway.initialize().
MainStart ==
  /\ mainPc = "start"
  /\ gateway' = "initializing"
  /\ mainLog' = mainLog \o << "initialize" >>
  /\ mainPc' = "awaitInitialize"
  /\ UNCHANGED << catalog, execution, exitCode >>

\* initialize resolves: main constructs the orchestrator, mounts the routes
\* and listens.
InitializeResolved ==
  /\ mainPc = "awaitInitialize"
  /\ gateway' = "initialized"
  /\ mainLog' = mainLog \o << "initialized", "construct", "listen" >>
  /\ mainPc' = "returned"
  /\ UNCHANGED << catalog, execution, exitCode >>

\* initialize rejects: main rejects, and its catch handler logs the error
\* and calls process.exit(1).
InitializeRejected ==
  /\ mainPc = "awaitInitialize"
  /\ gateway' = "failed"
  /\ mainLog' = mainLog \o << "exit" >>
  /\ mainPc' = "exited"
  /\ exitCode' = Some(1)
  /\ UNCHANGED << catalog, execution >>

Listening ==
  /\ exitCode = None
  /\ \E k \in 1..Len(mainLog) : mainLog[k] = "listen"

\* The listening server hands a request to the route, which calls execute.
Request(i, in) ==
  /\ Listening
  /\ Start(i, in)

\* The continuation of invocation i that is ready to run.
Step(i) ==
  \/ VendorReturned(i)
  \/ ProductReturned(i)
  \/ BuildReturned(i)
  \/ \E answer \in VerifyResponses : VerifyReturned(i, answer)
  \/ \E answer \in SettleResponses : SettleReturned(i, answer)

Next ==
  \/ MainStart
  \/ InitializeResolved
  \/ InitializeRejected
  \/ \E i \in Invocations :
       \/ \E in \in Inputs : Request(i, in)
       \/ Step(i)
       \/ PortFault(i)

Spec == Init /\ [][Next]_vars

\* Every awaited call settles and the event loop runs the continuation.
FairSpec == Spec /\ \A i \in Invocations : WF_vars(Step(i) \/ PortFault(i))


(***************************************************************************)
(* Vocabulary of the properties.                                           *)
(***************************************************************************)
Ops(i) == [k \in 1..Len(calls[i]) |-> calls[i][k].op]
CallsOf(i, op) == { k \in 1..Len(calls[i]) : calls[i][k].op = op }
Returned(i) == pc[i] = "done"
Ended(i) == pc[i] \in {"done", "threw"}
Outcome(i) == Get(result[i])
BackendFault(i) == pc[i] = "threw" /\ thrown[i] = Some("backend fault")

\* What the catalog holds for the request of invocation i.
CatalogVendor(i) == findById(vendors, input[i].vendorId)
CatalogProduct(i) == findByVendorIdAndPath(products, input[i].vendorId, input[i].path)
Resolvable(i) == IsSome(CatalogVendor(i)) /\ IsSome(CatalogProduct(i))

\* The requirements the server offers for the request of invocation i.
Offered(i) ==
  buildPaymentRequirements(ResourceConfig(Get(CatalogVendor(i)), Get(CatalogProduct(i))))

\* The request of invocation i carries a decodable proof, which does / does
\* not match an offered requirement.
Decodable(i) == IsSome(parsePaymentHeader(input[i].paymentHeader))
ProofMatches(i) ==
  /\ Resolvable(i) /\ ~NoPaymentHeader(input[i]) /\ Decodable(i)
  /\ IsSome(findMatchingRequirements(Offered(i), Decoded(input[i].paymentHeader)))
ProofMatchesNone(i) ==
  /\ Resolvable(i) /\ ~NoPaymentHeader(input[i]) /\ Decodable(i)
  /\ ~IsSome(findMatchingRequirements(Offered(i), Decoded(input[i].paymentHeader)))

OutcomeTypes ==
  {"payment_required", "success", "verification_failed", "settlement_failed", "not_found"}


(***************************************************************************)
(* C1.  In every invocation of execute, settlePayment is invoked at most   *)
(* once, and only after verifyPayment of the same invocation was invoked,  *)
(* has resolved and reported isValid = true.                               *)
(***************************************************************************)
C1_SettleOnceAfterValidVerify ==
  \A i \in Invocations :
    /\ Cardinality(CallsOf(i, "settlePayment")) <= 1
    /\ \A k \in CallsOf(i, "settlePayment") :
         /\ \E j \in CallsOf(i, "verifyPayment") : j < k
         /\ IsSome(verifyResult[i])
         /\ Get(verifyResult[i]).isValid

\* Two invocations: one settling after a valid verification, one that ended
\* on an invalid verification.
C1_Witness ==
  \E i, j \in Invocations :
    /\ CallsOf(i, "settlePayment") # {}
    /\ IsSome(verifyResult[j]) /\ ~Get(verifyResult[j]).isValid /\ Returned(j)

(***************************************************************************)
(* C2.  An outcome of execute carries the product if and only if it is     *)
(* Success, and Success is returned only when a requirement matched,       *)
(* verification reported valid and settlement reported success; the other  *)
(* four outcomes carry neither the product nor its content payload.        *)
(***************************************************************************)
C2_ProductOnlyOnSuccess ==
  \A i \in Invocations :
    Returned(i) =>
      /\ Outcome(i).type \in OutcomeTypes
      /\ ("product" \in DOMAIN Outcome(i)) <=> (Outcome(i).type = "success")
      /\ Outcome(i).type = "success" =>
           /\ IsSome(matchingRequirements[i])
           /\ IsSome(verifyResult[i]) /\ Get(verifyResult[i]).isValid
           /\ IsSome(settleResult[i]) /\ Get(settleResult[i]).success
           /\ Outcome(i).product.data = Get(CatalogProduct(i)).data
      /\ Outcome(i).type = "payment_required" =>
           /\ DOMAIN Outcome(i) = {"type", "paymentRequired"}
           /\ DOMAIN Outcome(i).paymentRequired.resource = {"url", "description", "mimeType"}
      /\ Outcome(i).type \in {"verification_failed", "settlement_failed", "not_found"} =>
           DOMAIN Outcome(i) = {"type", "reason"}

\* A Success beside a verified payment whose settlement failed.
C2_Witness ==
  \E i, j \in Invocations :
    /\ Returned(i) /\ Outcome(i).type = "success"
    /\ Returned(j) /\ Outcome(j).type = "settlement_failed"

(***************************************************************************)
(* C3.  When the proof matches a current requirement and verification      *)
(* reports invalid, execute returns VerificationFailed, with the reason    *)
(* the port supplied, and settlePayment is not invoked in that invocation. *)
(***************************************************************************)
C3_InvalidVerification ==
  \A i \in Invocations :
    (ProofMatches(i) /\ IsSome(verifyResult[i]) /\ ~Get(verifyResult[i]).isValid) =>
      /\ Returned(i)
      /\ Outcome(i).type = "verification_failed"
      /\ IsSome(Get(verifyResult[i]).invalidReason) =>
           Outcome(i).reason = Get(Get(verifyResult[i]).invalidReason)
      /\ CallsOf(i, "settlePayment") = {}

C3_Witness ==
  \E i \in Invocations :
    /\ ProofMatches(i) /\ IsSome(verifyResult[i])
    /\ Get(verifyResult[i]).invalidReason = Some("Invalid signature")
    /\ Returned(i)

(***************************************************************************)
(* C4.  When the proof matches, verification reports valid and settlement  *)
(* reports failure, execute returns SettlementFailed, with the reason the  *)
(* port supplied, and the outcome holds no product.                        *)
(***************************************************************************)
C4_FailedSettlement ==
  \A i \in Invocations :
    (/\ ProofMatches(i)
     /\ IsSome(verifyResult[i]) /\ Get(verifyResult[i]).isValid
     /\ IsSome(settleResult[i]) /\ ~Get(settleResult[i]).success) =>
      /\ Returned(i)
      /\ Outcome(i).type = "settlement_failed"
      /\ IsSome(Get(settleResult[i]).errorReason) =>
           Outcome(i).reason = Get(Get(settleResult[i]).errorReason)
      /\ "product" \notin DOMAIN Outcome(i)
      /\ \A f \in DOMAIN Outcome(i) : Outcome(i)[f] # Get(CatalogProduct(i)).data

C4_Witness ==
  \E i \in Invocations :
    /\ ProofMatches(i) /\ IsSome(settleResult[i])
    /\ Get(settleResult[i]).errorReason = Some("Insufficient funds")
    /\ Returned(i)

(***************************************************************************)
(* C5.  When the proof matches, is verified valid and is settled with      *)
(* success, execute returns Success with exactly the settlement outcome    *)
(* settlePayment returned and exactly the product the catalog holds for    *)
(* the requested (vendorId, path), content payload included.               *)
(***************************************************************************)
C5_Success ==
  \A i \in Invocations :
    (/\ ProofMatches(i)
     /\ IsSome(verifyResult[i]) /\ Get(verifyResult[i]).isValid
     /\ IsSome(settleResult[i]) /\ Get(settleResult[i]).success) =>
      /\ Returned(i)
      /\ Outcome(i) = [type |-> "success",
                       settleResponse |-> Get(settleResult[i]),
                       product |-> Get(CatalogProduct(i))]

C5_Witness ==
  \E i \in Invocations :
    /\ ProofMatches(i) /\ IsSome(settleResult[i]) /\ Get(settleResult[i]).success
    /\ Returned(i) /\ Outcome(i).product.data = "{weather:sunny,temp:25}"


(***************************************************************************)
(* C6.  A request without payment proof for a resolvable vendor and        *)
(* product returns PaymentRequired, and the payee of the first requirement *)
(* of the challenge is the vendor's payout address.  (The one other way    *)
(* the invocation can end is a fault of the backend while the requirements *)
(* are built.)                                                             *)
(***************************************************************************)
C6_NoProofPaymentRequired ==
  \A i \in Invocations :
    (Ended(i) /\ input[i].paymentHeader = Undefined /\ Resolvable(i)) =>
      \/ BackendFault(i)
      \/ /\ Returned(i)
         /\ Outcome(i).type = "payment_required"
         /\ Len(Outcome(i).paymentRequired.accepts) >= 1
         /\ Outcome(i).paymentRequired.accepts[1].payTo = Get(CatalogVendor(i)).evmAddress

C6_Witness ==
  \E i \in Invocations :
    /\ Returned(i) /\ input[i].paymentHeader = Undefined /\ Resolvable(i)
    /\ Outcome(i).paymentRequired.accepts[1].payTo = "0x1111111111111111111111111111111111111111"

(***************************************************************************)
(* C7.  A request for an unknown vendor returns NotFound with reason       *)
(* "Vendor not found", whether or not the product exists and whether or    *)
(* not a proof is supplied; a request for a known vendor and an unknown    *)
(* (vendor, path) returns NotFound with reason "Product not found".        *)
(***************************************************************************)
C7_NotFound ==
  \A i \in Invocations :
    Ended(i) =>
      /\ ~IsSome(CatalogVendor(i)) =>
           Returned(i) /\ Outcome(i) = [type |-> "not_found", reason |-> "Vendor not found"]
      /\ (IsSome(CatalogVendor(i)) /\ ~IsSome(CatalogProduct(i))) =>
           Returned(i) /\ Outcome(i) = [type |-> "not_found", reason |-> "Product not found"]

\* An unknown vendor asked with a proof, beside a known vendor asked for a
\* path it does not sell.
C7_Witness ==
  \E i, j \in Invocations :
    /\ Returned(i) /\ ~IsSome(CatalogVendor(i)) /\ ~IsSome(CatalogProduct(i))
    /\ input[i].paymentHeader \in WellFormedHeaders
    /\ Returned(j) /\ IsSome(CatalogVendor(j)) /\ ~IsSome(CatalogProduct(j))

(***************************************************************************)
(* C8.  A request for a resolvable vendor and product whose proof claims a *)
(* scheme and network that match none of the requirements offered returns  *)
(* PaymentRequired; the challenge is the one built from the requirements   *)
(* offered and the server's resource descriptor, it equals the outcome of  *)
(* a request for the same resource without proof, and it holds nothing of  *)
(* what the client claimed.  (A fault of the backend while the             *)
(* requirements are built is the one other way the invocation can end.)    *)
(***************************************************************************)
C8_NoMatchPaymentRequired ==
  \A i \in Invocations :
    (Ended(i) /\ ProofMatchesNone(i)) =>
      \/ BackendFault(i)
      \/ /\ Returned(i)
         /\ Outcome(i) =
              [type |-> "payment_required",
               paymentRequired |->
                 [x402Version |-> 2,
                  accepts |-> Offered(i),
                  resource |-> [url |-> input[i].resourceUrl,
                                description |-> Get(CatalogProduct(i)).description,
                                mimeType |-> Get(CatalogProduct(i)).mimeType]]]
         /\ \A j \in Invocations :
              (/\ Returned(j) /\ input[j].paymentHeader = Undefined
               /\ input[j].vendorId = input[i].vendorId
               /\ input[j].path = input[i].path
               /\ input[j].resourceUrl = input[i].resourceUrl) =>
                Outcome(j) = Outcome(i)
         /\ LET claimed == Decoded(input[i].paymentHeader)
                offer == Outcome(i).paymentRequired
            IN  /\ offer.resource # claimed.resource
                /\ \A k \in 1..Len(offer.accepts) :
                     /\ offer.accepts[k] # claimed.accepted
                     /\ offer.accepts[k].payTo # claimed.accepted.payTo
                     /\ offer.accepts[k].asset # claimed.accepted.asset
                     /\ offer.accepts[k].amount # claimed.accepted.amount
                     /\ offer.accepts[k].maxTimeoutSeconds # claimed.accepted.maxTimeoutSeconds

\* A proof of another scheme or of another network, and a request without
\* proof for the same resource.
C8_Witness ==
  \E i, j \in Invocations :
    /\ Returned(i) /\ ProofMatchesNone(i)
    /\ Returned(j) /\ input[j].paymentHeader = Undefined
    /\ input[j].vendorId = input[i].vendorId /\ input[j].path = input[i].path

(***************************************************************************)
(* C9 as stated.  A proof that parsePaymentHeader rejects is turned into a *)
(* failure outcome: the invocation that decoded it ends with one of the    *)
(* outcome variants, not with an exception.                                *)
(***************************************************************************)
DecodeRejected(i) ==
  \E k \in CallsOf(i, "parsePaymentHeader") :
    ~IsSome(parsePaymentHeader(calls[i][k].args[1]))

C9_MalformedProofIsOutcome ==
  \A i \in Invocations :
    DecodeRejected(i) =>
      /\ Returned(i)
      /\ Outcome(i).type \in OutcomeTypes

(***************************************************************************)
(* C9 as amended.  A proof that parsePaymentHeader rejects is not turned   *)
(* into an outcome: the decode error leaves execute as an exception, the   *)
(* invocation has no outcome, and no further port call is made.            *)
(***************************************************************************)
C9_MalformedProofThrows ==
  \A i \in Invocations :
    DecodeRejected(i) =>
      /\ pc[i] = "threw"
      /\ thrown[i] = Some("decode error")
      /\ result[i] = None
      /\ calls[i][Len(calls[i])].op = "parsePaymentHeader"

C9_Witness ==
  \E i \in Invocations :
    /\ input[i].paymentHeader = "not-base64-json"
    /\ DecodeRejected(i)
    /\ pc[i] = "threw"


(***************************************************************************)
(* C10.  Provided every collaborator call returns a value, an invocation   *)
(* of execute eventually ends with exactly one of the five outcomes, the   *)
(* one the guards decide in order: vendor absent, product absent, proof    *)
(* absent, no matching requirement, verification invalid, settlement       *)
(* failed, otherwise Success.  An invocation ends otherwise only when a    *)
(* collaborator call threw instead of returning.                           *)
(***************************************************************************)
ExpectedType(i) ==
  IF ~IsSome(CatalogVendor(i)) THEN "not_found"
  ELSE IF ~IsSome(CatalogProduct(i)) THEN "not_found"
  ELSE IF input[i].paymentHeader \in {Undefined, ""} THEN "payment_required"
  ELSE IF ProofMatchesNone(i) THEN "payment_required"
  ELSE IF IsSome(verifyResult[i]) /\ ~Get(verifyResult[i]).isValid THEN "verification_failed"
  ELSE IF IsSome(settleResult[i]) /\ ~Get(settleResult[i]).success THEN "settlement_failed"
  ELSE IF IsSome(verifyResult[i]) /\ IsSome(settleResult[i]) THEN "success"
  ELSE "undecided"

EndedAsDecided(i) ==
  \/ /\ pc[i] = "done"
     /\ IsSome(result[i]) /\ thrown[i] = None
     /\ Outcome(i).type \in OutcomeTypes
     /\ Outcome(i).type = ExpectedType(i)
  \/ /\ pc[i] = "threw"
     /\ result[i] = None
     /\ DecodeRejected(i) \/ thrown[i] = Some("backend fault")

\* The port call an invocation suspended at pc is waiting for.
AwaitedOp(at) ==
  CASE at = "awaitVendor" -> "findById"
    [] at = "awaitProduct" -> "findByVendorIdAndPath"
    [] at = "awaitBuild" -> "buildPaymentRequirements"
    [] at = "awaitVerify" -> "verifyPayment"
    [] at = "awaitSettle" -> "settlePayment"
    [] OTHER -> "none"

\* An invocation that has not ended is waiting for a call it made only
\* once, and its continuation can run as soon as that call returns: it is
\* never stuck, and every continuation either ends it or makes a call it
\* had not made before.
Advancing(i) ==
  /\ pc[i] \in {"awaitVendor", "awaitProduct", "awaitBuild", "awaitVerify", "awaitSettle"}
  /\ result[i] = None /\ thrown[i] = None
  /\ Len(calls[i]) >= 1
  /\ calls[i][Len(calls[i])].op = AwaitedOp(pc[i])
  /\ \A k, m \in 1..Len(calls[i]) : k # m => calls[i][k].op # calls[i][m].op
  /\ ENABLED << Step(i) >>_vars

C10_TerminatesAsDecided ==
  \A i \in Invocations : pc[i] = "idle" \/ Advancing(i) \/ EndedAsDecided(i)

\* The same, as a leads-to property of FairSpec.
C10_EventuallyEndsAsDecided ==
  \A i \in Invocations : (pc[i] # "idle") ~> EndedAsDecided(i)

\* A Success beside a failed verification: both ends of the chain of guards.
C10_Witness ==
  \E i \in Invocations :
    /\ pc[i] = "done" /\ Outcome(i).type = "success"
    /\ \E j \in Invocations : pc[j] = "done" /\ Outcome(j).type = "verification_failed"


(***************************************************************************)
(* C11.  On the not-found, no-proof and no-match paths execute makes only  *)
(* read-only calls (no verifyPayment, no settlePayment), leaves the        *)
(* catalog as it was, and classifies the request by its input alone: two   *)
(* invocations with identical inputs, one after the other or interleaved,  *)
(* return the same classification (NotFound or PaymentRequired).  The one  *)
(* other way such an invocation can end is a fault of the backend while    *)
(* the requirements are built.                                             *)
(***************************************************************************)
ReadOnlyOps ==
  {"findById", "findByVendorIdAndPath", "buildPaymentRequirements",
   "parsePaymentHeader", "findMatchingRequirements", "createPaymentRequiredResponse"}

NotFoundPath(i) == ~IsSome(CatalogVendor(i)) \/ ~IsSome(CatalogProduct(i))
NoProofPath(i) == Resolvable(i) /\ input[i].paymentHeader \in {Undefined, ""}
NoMatchPath(i) ==
  /\ Resolvable(i)
  /\ input[i].paymentHeader \in WellFormedHeaders
  /\ ~IsSome(findMatchingRequirements(Offered(i), Decoded(input[i].paymentHeader)))

C11_QuietPathsRepeatable ==
  \A i \in Invocations :
    (pc[i] # "idle" /\ (NotFoundPath(i) \/ NoProofPath(i) \/ NoMatchPath(i))) =>
      /\ \A k \in 1..Len(calls[i]) : calls[i][k].op \in ReadOnlyOps
      /\ vendors = InitVendors /\ products = InitProducts
      /\ Ended(i) =>
           \/ BackendFault(i)
           \/ /\ Returned(i)
              /\ Outcome(i).type = IF NotFoundPath(i) THEN "not_found" ELSE "payment_required"
      /\ \A j \in Invocations :
           (input[j] = input[i] /\ Returned(i) /\ Returned(j)) =>
             Outcome(j).type = Outcome(i).type

\* Two invocations with the same input have both returned on the no-match
\* path, after all six of its calls.
C11_Witness ==
  \E i, j \in Invocations :
    /\ i # j /\ input[i] = input[j] /\ Returned(i) /\ Returned(j)
    /\ NoMatchPath(i)
    /\ Len(calls[i]) = 6 /\ Len(calls[j]) = 6


(***************************************************************************)
(* C12 as stated.  Every outcome execute returns carries a reason string.  *)
(***************************************************************************)
C12_EveryOutcomeHasReason ==
  \A i \in Invocations : Returned(i) => "reason" \in DOMAIN Outcome(i)

(***************************************************************************)
(* C12 as amended.  The failure outcomes NotFound, VerificationFailed and  *)
(* SettlementFailed carry a reason string: one of the two fixed NotFound   *)
(* reasons, or the reason the port supplied, or the placeholder.           *)
(* PaymentRequired and Success carry no reason.                            *)
(***************************************************************************)
PortReasons == {"Invalid signature", "Insufficient funds", ""}

C12_FailureOutcomesHaveReason ==
  \A i \in Invocations :
    Returned(i) =>
      /\ ("reason" \in DOMAIN Outcome(i)) <=>
           (Outcome(i).type \in {"not_found", "verification_failed", "settlement_failed"})
      /\ Outcome(i).type = "not_found" =>
           Outcome(i).reason \in {"Vendor not found", "Product not found"}
      /\ Outcome(i).type = "verification_failed" =>
           Outcome(i).reason \in PortReasons \cup {"Unknown verification error"}
      /\ Outcome(i).type = "settlement_failed" =>
           Outcome(i).reason \in PortReasons \cup {"Unknown settlement error"}

\* A verification that failed without a reason from the port, beside a
\* PaymentRequired.
C12_Witness ==
  \E i, j \in Invocations :
    /\ Returned(i) /\ Outcome(i).type = "verification_failed"
    /\ Get(verifyResult[i]).invalidReason = None
    /\ Returned(j) /\ Outcome(j).type = "payment_required"


(***************************************************************************)
(* C13.  Proofs are not deduplicated across invocations: an invocation     *)
(* whose matching proof was verified valid invokes settlePayment exactly   *)
(* once, whatever the other invocations have done; so when two invocations *)
(* carry the same valid, matching proof, settlePayment is invoked twice    *)
(* with that proof, once by each (and both return Success when the backend *)
(* settles both: the witness).                                             *)
(***************************************************************************)
VerifiedValid(i) ==
  ProofMatches(i) /\ IsSome(verifyResult[i]) /\ Get(verifyResult[i]).isValid

SettleCallArgs(i) == { calls[i][k].args : k \in CallsOf(i, "settlePayment") }

C13_NoDeduplication ==
  \A i \in Invocations :
    VerifiedValid(i) =>
      /\ Cardinality(CallsOf(i, "settlePayment")) = 1
      /\ \A a \in SettleCallArgs(i) : a[1] = Decoded(input[i].paymentHeader)
      /\ \A j \in Invocations \ {i} :
           (VerifiedValid(j) /\ input[j].paymentHeader = input[i].paymentHeader) =>
             /\ Cardinality(CallsOf(j, "settlePayment")) = 1
             /\ \A a \in SettleCallArgs(i), b \in SettleCallArgs(j) : a[1] = b[1]

\* Two invocations with the same proof have both returned Success.
C13_Witness ==
  \E i, j \in Invocations :
    /\ i # j
    /\ input[i].paymentHeader = input[j].paymentHeader
    /\ VerifiedValid(i) /\ VerifiedValid(j)
    /\ Returned(i) /\ Outcome(i).type = "success"
    /\ Returned(j) /\ Outcome(j).type = "success"
    /\ SettleCallArgs(i) = SettleCallArgs(j)


(***************************************************************************)
(* C14.  Invocations are independent.  The catalog is never written, and   *)
(* in every interleaving the calls an invocation has made and the outcome  *)
(* it returned are those of the same execute run alone: a function of its  *)
(* own input, of the catalog and of the answers the ports gave to it, and  *)
(* of nothing another invocation did.                                      *)
(***************************************************************************)
\* execute run alone on the input of invocation i, as far as the answers
\* given to i reach: its calls ...
AloneCalls(i) ==
  LET in == input[i]
      v == findById(InitVendors, in.vendorId)
      p == findByVendorIdAndPath(InitProducts, in.vendorId, in.path)
      lookupV == << Call("findById", << in.vendorId >>) >>
      lookupP == << Call("findByVendorIdAndPath", << in.vendorId, in.path >>) >>
  IN  IF ~IsSome(v) THEN lookupV
      ELSE IF ~IsSome(p) THEN lookupV \o lookupP
      ELSE
        LET config == ResourceConfig(Get(v), Get(p))
            reqs == buildPaymentRequirements(config)
            info == ResourceInfo(in, Get(p))
            build == << Call("buildPaymentRequirements", << config >>) >>
            created == << Call("createPaymentRequiredResponse", << reqs, info >>) >>
            parse == << Call("parsePaymentHeader", << in.paymentHeader >>) >>
            parsed == parsePaymentHeader(in.paymentHeader)
        IN  lookupV \o lookupP \o build \o
            ( IF in.paymentHeader \in {Undefined, ""} THEN created
              ELSE IF ~IsSome(parsed) THEN parse
              ELSE
                LET m == findMatchingRequirements(reqs, Get(parsed))
                    find == << Call("findMatchingRequirements", << reqs, Get(parsed) >>) >>
                IN  IF ~IsSome(m) THEN parse \o find \o created
                    ELSE parse \o find
                         \o << Call("verifyPayment", << Get(parsed), Get(m) >>) >>
                         \o ( IF IsSome(verifyResult[i]) /\ Get(verifyResult[i]).isValid
                                THEN << Call("settlePayment", << Get(parsed), Get(m) >>) >>
                                ELSE << >> ) )

\* ... and its outcome.
AloneOutcome(i) ==
  LET in == input[i]
      v == findById(InitVendors, in.vendorId)
      p == findByVendorIdAndPath(InitProducts, in.vendorId, in.path)
  IN  IF ~IsSome(v) THEN [type |-> "not_found", reason |-> "Vendor not found"]
      ELSE IF ~IsSome(p) THEN [type |-> "not_found", reason |-> "Product not found"]
      ELSE IF in.paymentHeader \in {Undefined, ""} \/ NoMatchPath(i)
        THEN [type |-> "payment_required",
              paymentRequired |->
                [x402Version |-> 2,
                 accepts |-> buildPaymentRequirements(ResourceConfig(Get(v), Get(p))),
                 resource |-> ResourceInfo(in, Get(p))]]
      ELSE IF ~Get(verifyResult[i]).isValid
        THEN [type |-> "verification_failed",
              reason |-> IF IsSome(Get(verifyResult[i]).invalidReason)
                           THEN Get(Get(verifyResult[i]).invalidReason)
                           ELSE "Unknown verification error"]
      ELSE IF ~Get(settleResult[i]).success
        THEN [type |-> "settlement_failed",
              reason |-> IF IsSome(Get(settleResult[i]).errorReason)
                           THEN Get(Get(settleResult[i]).errorReason)
                           ELSE "Unknown settlement error"]
      ELSE [type |-> "success", settleResponse |-> Get(settleResult[i]), product |-> Get(p)]

\* The calls of AloneCalls(i) up to its call of op, which it makes.
AloneCallsUpTo(i, op) ==
  LET at == CHOOSE k \in 1..Len(AloneCalls(i)) : AloneCalls(i)[k].op = op
  IN  SubSeq(AloneCalls(i), 1, at)

AloneMakes(i, op) == \E k \in 1..Len(AloneCalls(i)) : AloneCalls(i)[k].op = op

C14_InvocationsIndependent ==
  /\ vendors = InitVendors
  /\ products = InitProducts
  /\ \A i \in Invocations :
       CASE pc[i] = "idle" -> calls[i] = << >> /\ result[i] = None /\ thrown[i] = None
         [] pc[i] = "done" ->
              /\ calls[i] = AloneCalls(i)
              /\ result[i] = Some(AloneOutcome(i))
              /\ thrown[i] = None
         [] pc[i] = "threw" ->
              /\ result[i] = None
              /\ \/ /\ thrown[i] = Some("decode error")
                    /\ calls[i] = AloneCalls(i)
                    /\ calls[i][Len(calls[i])].op = "parsePaymentHeader"
                 \/ /\ thrown[i] = Some("backend fault")
                    /\ \E op \in {"buildPaymentRequirements", "verifyPayment", "settlePayment"} :
                         /\ AloneMakes(i, op)
                         /\ calls[i] = AloneCallsUpTo(i, op)
                         /\ IsSome(verifyResult[i]) => op = "settlePayment"
         [] OTHER ->
              /\ AloneMakes(i, AwaitedOp(pc[i]))
              /\ calls[i] = AloneCallsUpTo(i, AwaitedOp(pc[i]))
              /\ result[i] = None /\ thrown[i] = None

\* Two invocations for different resources, with different proofs, are in
\* flight together: one is suspended on its settlement, the other on its
\* product lookup.
C14_Witness ==
  \E i, j \in Invocations :
    /\ i # j
    /\ input[i].path # input[j].path
    /\ input[i].paymentHeader # input[j].paymentHeader
    /\ pc[i] = "awaitSettle"
    /\ pc[j] = "awaitProduct"


(***************************************************************************)
(* C15.  Anti-downgrade.  Whenever execute invokes verifyPayment or        *)
(* settlePayment, the proof is the decoded header and the requirement is   *)
(* the first entry, of the requirements list built in this invocation,     *)
(* with the scheme and network the proof claims; it is never the           *)
(* requirement claimed inside the proof.  verifyPayment and settlePayment  *)
(* of one invocation receive the same proof and the same requirement.      *)
(***************************************************************************)
PaymentCalls(i) == CallsOf(i, "verifyPayment") \cup CallsOf(i, "settlePayment")

C15_AntiDowngrade ==
  \A i \in Invocations :
    /\ \A k \in PaymentCalls(i) :
         LET proof == calls[i][k].args[1]
             req == calls[i][k].args[2]
         IN  /\ proof = Decoded(input[i].paymentHeader)
             /\ \E n \in 1..Len(requirements[i]) :
                  /\ req = requirements[i][n]
                  /\ req.scheme = proof.accepted.scheme
                  /\ req.network = proof.accepted.network
                  /\ \A b \in 1..(n - 1) :
                       \/ requirements[i][b].scheme # proof.accepted.scheme
                       \/ requirements[i][b].network # proof.accepted.network
             /\ req # proof.accepted
             /\ req.payTo = Get(CatalogVendor(i)).evmAddress
             /\ req.payTo # proof.accepted.payTo
    /\ \A k, m \in PaymentCalls(i) : calls[i][k].args = calls[i][m].args

\* A proof that claims the attacker as payee has been verified and sent to
\* settlement.
C15_Witness ==
  \E i \in Invocations :
    /\ CallsOf(i, "verifyPayment") # {} /\ CallsOf(i, "settlePayment") # {}
    /\ Decoded(input[i].paymentHeader).accepted.payTo = "0xattacker"


(***************************************************************************)
(* C16.  An invalid verification without a reason from the port gives the  *)
(* reason "Unknown verification error", a failed settlement without a      *)
(* reason from the port gives "Unknown settlement error", and a reason     *)
(* the port supplies (the empty string included) is the outcome's reason,  *)
(* unchanged.                                                              *)
(***************************************************************************)
C16_ReasonOrPlaceholder ==
  \A i \in Invocations :
    /\ (IsSome(verifyResult[i]) /\ ~Get(verifyResult[i]).isValid) =>
         /\ Returned(i) /\ Outcome(i).type = "verification_failed"
         /\ LET supplied == Get(verifyResult[i]).invalidReason
            IN  /\ supplied = None => Outcome(i).reason = "Unknown verification error"
                /\ supplied # None => Outcome(i).reason = supplied[1]
    /\ (IsSome(settleResult[i]) /\ ~Get(settleResult[i]).success) =>
         /\ Returned(i) /\ Outcome(i).type = "settlement_failed"
         /\ LET supplied == Get(settleResult[i]).errorReason
            IN  /\ supplied = None => Outcome(i).reason = "Unknown settlement error"
                /\ supplied # None => Outcome(i).reason = supplied[1]

\* A verification failed without reason, beside a settlement failed with
\* the empty string as its reason.
C16_Witness ==
  \E i, j \in Invocations :
    /\ Returned(i) /\ IsSome(verifyResult[i])
    /\ ~Get(verifyResult[i]).isValid /\ Get(verifyResult[i]).invalidReason = None
    /\ Returned(j) /\ IsSome(settleResult[j])
    /\ ~Get(settleResult[j]).success /\ Get(settleResult[j]).errorReason = Some("")


(***************************************************************************)
(* C17.  A fault of the backend in a port call (parsePaymentHeader         *)
(* rejecting the header; buildPaymentRequirements, verifyPayment or        *)
(* settlePayment not returning a value) is not an outcome: execute ends    *)
(* with an exception and without result, the faulting call is the last     *)
(* call of the invocation and nothing of it can run any more.  After a     *)
(* decode failure there is no verifyPayment and no settlePayment call.     *)
(* execute ends with an exception in no other case.                        *)
(***************************************************************************)
LastOp(i) == IF calls[i] = << >> THEN "none" ELSE calls[i][Len(calls[i])].op

\* Invocation i has ended although the port call it awaited last gave it no
\* value.
AwaitedCallFaulted(i) ==
  /\ Ended(i)
  /\ \/ LastOp(i) = "buildPaymentRequirements" /\ requirements[i] = << >>
     \/ LastOp(i) = "verifyPayment" /\ verifyResult[i] = None
     \/ LastOp(i) = "settlePayment" /\ settleResult[i] = None

C17_FaultsPropagate ==
  \A i \in Invocations :
    /\ (AwaitedCallFaulted(i) \/ DecodeRejected(i)) =>
         /\ pc[i] = "threw"
         /\ result[i] = None
         /\ thrown[i] # None
         /\ ~ENABLED << Step(i) \/ PortFault(i) >>_vars
    /\ DecodeRejected(i) =>
         /\ LastOp(i) = "parsePaymentHeader"
         /\ CallsOf(i, "verifyPayment") = {} /\ CallsOf(i, "settlePayment") = {}
    /\ pc[i] = "threw" => (AwaitedCallFaulted(i) \/ DecodeRejected(i))
    /\ thrown[i] # None => pc[i] = "threw"

\* The three awaited port calls have faulted in one invocation or another:
\* here the settlement of one, beside the verification of the other.
C17_Witness ==
  \E i, j \in Invocations :
    /\ pc[i] = "threw" /\ LastOp(i) = "settlePayment"
    /\ pc[j] = "threw" /\ LastOp(j) = "verifyPayment"


(***************************************************************************)
(* C18.  No implicit retries: in one invocation the calls come in the      *)
(* order findById, findByVendorIdAndPath, buildPaymentRequirements,        *)
(* parsePaymentHeader, findMatchingRequirements, verifyPayment,            *)
(* settlePayment, createPaymentRequiredResponse, each at most once; an     *)
(* invocation whose verification or settlement has been refused has ended  *)
(* with that call as its last one, and an ended invocation makes no        *)
(* further step.                                                           *)
(***************************************************************************)
AlgorithmOrder ==
  << "findById", "findByVendorIdAndPath", "buildPaymentRequirements",
     "parsePaymentHeader", "findMatchingRequirements", "verifyPayment",
     "settlePayment", "createPaymentRequiredResponse" >>

Rank(op) == CHOOSE r \in 1..Len(AlgorithmOrder) : AlgorithmOrder[r] = op

C18_NoImplicitRetries ==
  \A i \in Invocations :
    /\ \A k \in 1..Len(calls[i]) : \E r \in 1..Len(AlgorithmOrder) :
         AlgorithmOrder[r] = calls[i][k].op
    /\ \A k, l \in 1..Len(calls[i]) :
         k < l => Rank(calls[i][k].op) < Rank(calls[i][l].op)
    /\ (IsSome(verifyResult[i]) /\ VerifyRejected(Get(verifyResult[i]))) =>
         /\ Returned(i) /\ LastOp(i) = "verifyPayment"
         /\ Cardinality(CallsOf(i, "verifyPayment")) = 1
    /\ (IsSome(settleResult[i]) /\ SettleRejected(Get(settleResult[i]))) =>
         /\ Returned(i) /\ LastOp(i) = "settlePayment"
         /\ Cardinality(CallsOf(i, "settlePayment")) = 1
    /\ Ended(i) => ~ENABLED << Step(i) \/ PortFault(i) >>_vars

\* One invocation has ended on a refused settlement after the seven calls
\* of the paid path, another on a refused verification.
C18_Witness ==
  \E i, j \in Invocations :
    /\ Returned(i) /\ IsSome(settleResult[i]) /\ SettleRejected(Get(settleResult[i]))
    /\ Ops(i) = SubSeq(AlgorithmOrder, 1, 7)
    /\ Returned(j) /\ IsSome(verifyResult[j]) /\ VerifyRejected(Get(verifyResult[j]))
    /\ Ops(j) = SubSeq(AlgorithmOrder, 1, 6)


(***************************************************************************)
(* C19.  Every requirement-build request passed to                         *)
(* buildPaymentRequirements has scheme "exact", the network and the price  *)
(* of the product the catalog holds for the request, the payout address    *)
(* of its vendor as payee and a maximum timeout of 60 seconds; every       *)
(* resource descriptor passed on has the request's resourceUrl with that   *)
(* product's description and MIME type.  Where the request carries a       *)
(* proof that decodes, the payee, the timeout and the descriptor are not   *)
(* the ones the proof claims.                                              *)
(***************************************************************************)
BuildRequests(i) ==
  { calls[i][k].args[1] : k \in CallsOf(i, "buildPaymentRequirements") }

Descriptors(i) ==
  { calls[i][k].args[2] : k \in CallsOf(i, "createPaymentRequiredResponse") }

C19_BuildRequestFromCatalog ==
  \A i \in Invocations :
    /\ \A config \in BuildRequests(i) :
         /\ Resolvable(i)
         /\ DOMAIN config = {"scheme", "network", "price", "payTo", "maxTimeoutSeconds"}
         /\ config.scheme = "exact"
         /\ config.network = Get(CatalogProduct(i)).network
         /\ config.price = Get(CatalogProduct(i)).price
         /\ config.payTo = Get(CatalogVendor(i)).evmAddress
         /\ config.maxTimeoutSeconds = 60
         /\ input[i].paymentHeader \in WellFormedHeaders =>
              /\ config.payTo # Decoded(input[i].paymentHeader).accepted.payTo
              /\ config.maxTimeoutSeconds #
                   Decoded(input[i].paymentHeader).accepted.maxTimeoutSeconds
    /\ \A info \in Descriptors(i) :
         /\ Resolvable(i)
         /\ DOMAIN info = {"url", "description", "mimeType"}
         /\ info.url = input[i].resourceUrl
         /\ info.description = Get(CatalogProduct(i)).description
         /\ info.mimeType = Get(CatalogProduct(i)).mimeType
         /\ input[i].paymentHeader \in WellFormedHeaders =>
              info # Decoded(input[i].paymentHeader).resource
    /\ (Returned(i) /\ Outcome(i).type = "payment_required") =>
         Outcome(i).paymentRequired.resource \in Descriptors(i)

\* A request whose proof decodes and claims another scheme has been
\* answered with a descriptor, after its build request was passed on.
C19_Witness ==
  \E i \in Invocations :
    /\ input[i].paymentHeader = "b64(upto)"
    /\ BuildRequests(i) # {}
    /\ Descriptors(i) # {}
    /\ Returned(i)


(***************************************************************************)
(* C20.  An invocation whose vendor the catalog does not hold calls        *)
(* findById and nothing else; one whose product it does not hold calls     *)
(* the two lookups and nothing else: neither calls an operation of the     *)
(* payment backend.  buildPaymentRequirements is called at most once, by   *)
(* the invocations whose vendor and product resolve only, and by every     *)
(* such invocation that has ended; the proof is decoded only after that    *)
(* call has returned the requirements.                                     *)
(***************************************************************************)
GatewayOps ==
  { "buildPaymentRequirements", "createPaymentRequiredResponse",
    "parsePaymentHeader", "findMatchingRequirements",
    "verifyPayment", "settlePayment" }

GatewayCalls(i) == { k \in 1..Len(calls[i]) : calls[i][k].op \in GatewayOps }

C20_BuildOnlyWhenResolved ==
  \A i \in Invocations :
    pc[i] # "idle" =>
      /\ ~IsSome(CatalogVendor(i)) =>
           /\ Ops(i) = << "findById" >>
           /\ CallsOf(i, "findByVendorIdAndPath") = {}
      /\ (IsSome(CatalogVendor(i)) /\ ~IsSome(CatalogProduct(i))) =>
           /\ Ops(i) \in { << "findById" >>, << "findById", "findByVendorIdAndPath" >> }
           /\ Ended(i) => Ops(i) = << "findById", "findByVendorIdAndPath" >>
      /\ ~Resolvable(i) => GatewayCalls(i) = {}
      /\ (Returned(i) /\ Outcome(i).type = "not_found") => GatewayCalls(i) = {}
      /\ Cardinality(CallsOf(i, "buildPaymentRequirements")) <= 1
      /\ CallsOf(i, "buildPaymentRequirements") # {} => Resolvable(i)
      /\ (Resolvable(i) /\ Ended(i)) =>
           Cardinality(CallsOf(i, "buildPaymentRequirements")) = 1
      /\ \A k \in CallsOf(i, "parsePaymentHeader") :
           /\ \E b \in CallsOf(i, "buildPaymentRequirements") : b < k
           /\ requirements[i] # << >>

\* A request with a proof for an unknown vendor has been answered after
\* the one lookup, beside a request that resolves, whose proof was decoded
\* after the requirements were built.
C20_Witness ==
  \E i, j \in Invocations :
    /\ Returned(i) /\ ~IsSome(CatalogVendor(i))
    /\ input[i].paymentHeader \in WellFormedHeaders
    /\ Ops(i) = << "findById" >>
    /\ Resolvable(j) /\ CallsOf(j, "parsePaymentHeader") # {}
    /\ CallsOf(j, "buildPaymentRequirements") # {}


(***************************************************************************)
(* C21.  A payment header that is the empty string is treated as an        *)
(* absent proof: an invocation for a resolvable vendor and product with    *)
(* such a header never calls parsePaymentHeader, findMatchingRequirements, *)
(* verifyPayment or settlePayment; when it returns, it returns             *)
(* PaymentRequired with the offered requirements, and its calls and its    *)
(* outcome are those of an invocation that differs in leaving the header   *)
(* out.  (The one other way it can end is a fault of the backend while     *)
(* the requirements are built.)                                            *)
(***************************************************************************)
ProofOps ==
  { "parsePaymentHeader", "findMatchingRequirements", "verifyPayment", "settlePayment" }

EmptyHeader(i) == pc[i] # "idle" /\ input[i].paymentHeader = "" /\ Resolvable(i)

SameButHeaderAbsent(i, j) ==
  input[j] = [input[i] EXCEPT !.paymentHeader = Undefined]

C21_EmptyHeaderIsNoProof ==
  \A i \in Invocations :
    EmptyHeader(i) =>
      /\ \A k \in 1..Len(calls[i]) : calls[i][k].op \notin ProofOps
      /\ paymentPayload[i] = None /\ verifyResult[i] = None /\ settleResult[i] = None
      /\ Ended(i) =>
           \/ BackendFault(i) /\ LastOp(i) = "buildPaymentRequirements"
           \/ /\ Returned(i)
              /\ Outcome(i).type = "payment_required"
              /\ Outcome(i).paymentRequired.accepts = Offered(i)
              /\ LastOp(i) = "createPaymentRequiredResponse"
      /\ \A j \in Invocations :
           (SameButHeaderAbsent(i, j) /\ Returned(i) /\ Returned(j)) =>
             /\ Outcome(j) = Outcome(i)
             /\ Ops(j) = Ops(i)

\* The same request has been answered twice, once with the empty header and
\* once with the header left out.
C21_Witness ==
  \E i, j \in Invocations :
    /\ EmptyHeader(i) /\ Returned(i)
    /\ SameButHeaderAbsent(i, j) /\ Returned(j)
    /\ Outcome(i).type = "payment_required"


(***************************************************************************)
(* C22.  At start-up the gateway's initialize is called once, and it has   *)
(* resolved before the orchestrator is constructed and before the server   *)
(* listens: no invocation of execute has begun unless the gateway is       *)
(* initialized and the server listens.  When initialize fails, the process *)
(* has exited with code 1, the orchestrator was never constructed, the     *)
(* server never listened, no invocation has begun and nothing can happen   *)
(* any more.                                                               *)
(***************************************************************************)
MainDid(what) == { k \in 1..Len(mainLog) : mainLog[k] = what }

C22_InitializedBeforeServing ==
  /\ Cardinality(MainDid("initialize")) <= 1
  /\ mainPc # "start" => Cardinality(MainDid("initialize")) = 1
  /\ \A k \in MainDid("construct") \cup MainDid("listen") :
       /\ gateway = "initialized"
       /\ \E j \in MainDid("initialized") : j < k
  /\ \A c \in MainDid("construct") : \A l \in MainDid("listen") : c < l
  /\ \A i \in Invocations :
       pc[i] # "idle" => gateway = "initialized" /\ Listening
  /\ gateway = "failed" =>
       /\ mainPc = "exited" /\ exitCode = Some(1)
       /\ MainDid("construct") = {} /\ MainDid("listen") = {}
       /\ \A i \in Invocations : pc[i] = "idle"
       /\ ~ENABLED << Next >>_vars
  /\ exitCode # None => gateway = "failed"

\* The server has started in the order of main and has sold a product.
C22_Witness ==
  /\ mainLog = << "initialize", "initialized", "construct", "listen" >>
  /\ gateway = "initialized"
  /\ \E i \in Invocations : Returned(i) /\ Outcome(i).type = "success"

====
